---- MODULE Spec2Model ----
(***************************************************************************)
(* Model of data/logs_model/elastic_logs.py: the Elasticsearch log model   *)
(* (ElasticsearchLogs), its one-time initialization (_initialize), the     *)
(* index-name validation and generation, the retention decision, the      *)
(* index list / delete / exists operations and LogEntry.save, against an   *)
(* abstract Elasticsearch backend.                                         *)
(*                                                                         *)
(* Strings are sequences of one-character strings.  A thread's call is a   *)
(* frame; an action runs the code from one backend request to the point    *)
(* just before the next one (the places where another caller can run).     *)
(***************************************************************************)
EXTENDS Integers, Sequences, FiniteSets, TLC

\* ------------------------------------------------------------------------
\* Characters and strings
\* ------------------------------------------------------------------------

Digits == <<"0", "1", "2", "3", "4", "5", "6", "7", "8", "9">>

IsDigit(c) == \E i \in 1..10 : Digits[i] = c

DigitVal(c) == (CHOOSE i \in 1..10 : Digits[i] = c) - 1

UpperCase == {"A", "B", "C", "D", "E", "F", "G", "H", "I", "J", "K", "L", "M",
              "N", "O", "P", "Q", "R", "S", "T", "U", "V", "W", "X", "Y", "Z"}

\* The characters the class [^A-Z:\/*?\"<>|,# ] of VALID_INDEX_PATTERN excludes.
ForbiddenChars == UpperCase \cup {":", "/", "*", "?", "\"", "<", ">", "|", ",", "#", " "}

\* The characters the lookahead (?![-_+]) refuses as the first one.
ForbiddenFirst == {"-", "_", "+"}

\* s[i], or the empty string outside the string.
At(s, i) == IF i \in 1..Len(s) THEN s[i] ELSE ""

\* Python's "$": the end of the string, or just before a newline that ends it.
DollarAt(s, i) == \/ i = Len(s) + 1
                  \/ i = Len(s) /\ s[i] = "\n"

StartsWith(s, p) == /\ Len(p) <= Len(s)
                    /\ \A i \in 1..Len(p) : s[i] = p[i]

\* s[from..], the rest of s from position from on.
Rest(s, from) == [i \in 1..(Len(s) - from + 1) |-> s[i + from - 1]]

\* ------------------------------------------------------------------------
\* Program constants
\* ------------------------------------------------------------------------

\* The {1,255} of VALID_INDEX_PATTERN.
PatternMaxLen == 255

\* The 255 of "len(index) > 255" in _valid_index_name.
IndexMaxLen == 255

\* timedelta(days=1) of can_delete_index, in days.
GraceDays == 1

\* ------------------------------------------------------------------------
\* Index prefixes and names
\* ------------------------------------------------------------------------

\* re.match(VALID_INDEX_PATTERN, prefix) is not None
\*   ^((?!\.$|\.\.$|[-_+])([^A-Z:\/*?\"<>|,# ]){1,255})$
ValidIndexPrefix(prefix) ==
    /\ ~(At(prefix, 1) = "." /\ DollarAt(prefix, 2))
    /\ ~(At(prefix, 1) = "." /\ At(prefix, 2) = "." /\ DollarAt(prefix, 3))
    /\ At(prefix, 1) \notin ForbiddenFirst
    /\ \E k \in {Len(prefix) - 1, Len(prefix)} \cap 1..PatternMaxLen :
          /\ \A i \in 1..k : prefix[i] \notin ForbiddenChars
          /\ DollarAt(prefix, k + 1)

\* ------------------------------------------------------------------------
\* datetime.strptime(s, "%Y-%m-%d") and the calendar
\* ------------------------------------------------------------------------

IsLeap(y) == y % 4 = 0 /\ (y % 100 # 0 \/ y % 400 = 0)

DaysInMonth(y, m) ==
    IF m = 2 THEN (IF IsLeap(y) THEN 29 ELSE 28)
    ELSE IF m \in {4, 6, 9, 11} THEN 30 ELSE 31

RECURSIVE DaysBeforeMonth(_, _)
DaysBeforeMonth(y, m) ==
    IF m <= 1 THEN 0 ELSE DaysBeforeMonth(y, m - 1) + DaysInMonth(y, m - 1)

\* datetime.toordinal(): the day number, 0001-01-01 being day 1.
Ordinal(y, m, d) ==
    (y - 1) * 365 + ((y - 1) \div 4) - ((y - 1) \div 100) + ((y - 1) \div 400)
      + DaysBeforeMonth(y, m) + d

NoDate == [ok |-> FALSE, y |-> 0, m |-> 0, d |-> 0]

\* The width of the month field at position i: the alternatives
\* 1[0-2] | 0[1-9] | [1-9] in order, each followed by "-"; 0 when none matches.
MonthWidth(s, i) ==
    IF At(s, i) = "1" /\ At(s, i + 1) \in {"0", "1", "2"} /\ At(s, i + 2) = "-" THEN 2
    ELSE IF At(s, i) = "0" /\ IsDigit(At(s, i + 1)) /\ At(s, i + 1) # "0"
            /\ At(s, i + 2) = "-" THEN 2
    ELSE IF IsDigit(At(s, i)) /\ At(s, i) # "0" /\ At(s, i + 1) = "-" THEN 1
    ELSE 0

\* The width of the day field at position i: the alternatives
\* 3[0-1] | [1-2]\d | 0[1-9] | [1-9] | " "[1-9] in order; 0 when none matches.
DayWidth(s, i) ==
    IF At(s, i) = "3" /\ At(s, i + 1) \in {"0", "1"} THEN 2
    ELSE IF At(s, i) \in {"1", "2"} /\ IsDigit(At(s, i + 1)) THEN 2
    ELSE IF At(s, i) = "0" /\ IsDigit(At(s, i + 1)) /\ At(s, i + 1) # "0" THEN 2
    ELSE IF IsDigit(At(s, i)) /\ At(s, i) # "0" THEN 1
    ELSE IF At(s, i) = " " /\ IsDigit(At(s, i + 1)) /\ At(s, i + 1) # "0" THEN 2
    ELSE 0

\* The number a run of digits s[i..i+w-1] spells.
RECURSIVE Number(_, _, _)
Number(s, i, w) ==
    IF w = 0 THEN 0
    ELSE Number(s, i, w - 1) * 10 + DigitVal(s[i + w - 1])

\* datetime.strptime(s, INDEX_DATE_FORMAT): the date, or ok = FALSE for the
\* ValueError (no match, unconverted data, a day the calendar does not have).
Strptime(s) ==
    IF ~(\A i \in 1..4 : IsDigit(At(s, i))) \/ At(s, 5) # "-" THEN NoDate
    ELSE LET mw == MonthWidth(s, 6)
             dw == DayWidth(s, 6 + mw + 1)
             y  == Number(s, 1, 4)
             m  == Number(s, 6, mw)
             d  == IF At(s, 6 + mw + 1) = " "
                   THEN Number(s, 6 + mw + 2, 1)
                   ELSE Number(s, 6 + mw + 1, dw)
         IN IF mw = 0 \/ dw = 0 THEN NoDate
            ELSE IF Len(s) # 6 + mw + dw THEN NoDate
            ELSE IF y < 1 \/ d > DaysInMonth(y, m) THEN NoDate
            ELSE [ok |-> TRUE, y |-> y, m |-> m, d |-> d]

\* ElasticsearchLogs._valid_index_name(index) of a manager with this prefix.
ValidIndexName(prefix, index) ==
    /\ ValidIndexPrefix(index)
    /\ StartsWith(index, prefix)
    /\ Len(index) <= IndexMaxLen
    /\ Strptime(Rest(index, Len(prefix) + 1)).ok


\* Mutant of RetentionExpired: the margin compared with > instead of >=.
RetentionExpiredStrict(ord, cutoff) ==
    LET before == ord < cutoff.ord \/ (ord = cutoff.ord /\ 0 < cutoff.sec)
        days   == cutoff.ord - ord
    IN before /\ days > GraceDays

\* index_dt < cutoff_date and cutoff_date - index_dt >= timedelta(days=1), for
\* index_dt the midnight of day number ord and the cutoff a datetime
\* [ord, sec]: the difference is the normalised timedelta (days, seconds) with
\* 0 <= seconds < 86400, compared with (GraceDays, 0).
RetentionExpired(ord, cutoff) ==
    LET before == ord < cutoff.ord \/ (ord = cutoff.ord /\ 0 < cutoff.sec)
        days   == cutoff.ord - ord
        secs   == cutoff.sec
    IN before /\ (days > GraceDays \/ (days = GraceDays /\ secs >= 0))

\* The last w decimal digits of n, zero-padded.
RECURSIVE Decimal(_, _)
Decimal(n, w) ==
    IF w = 0 THEN <<>> ELSE Decimal(n \div 10, w - 1) \o <<Digits[(n % 10) + 1]>>

\* The number of decimal digits of a year.
YearWidth(y) == IF y < 10 THEN 1 ELSE IF y < 100 THEN 2 ELSE IF y < 1000 THEN 3 ELSE 4

\* INDEX_DATE_FORMAT
IndexDateFormat == <<"%", "Y", "-", "%", "m", "-", "%", "d">>

\* What strftime writes for the directive %c: %m and %d are two digits; %Y is
\* four digits from year 1000 on, and below that the C library decides
\* whether it is zero-padded (pad); %% is a percent sign.  The directives
\* the inputs do not use are left as they stand.
Directive(c, day, pad) ==
    CASE c = "Y" -> Decimal(day.y, IF pad THEN 4 ELSE YearWidth(day.y))
      [] c = "m" -> Decimal(day.m, 2)
      [] c = "d" -> Decimal(day.d, 2)
      [] c = "%" -> <<"%">>
      [] OTHER -> <<"%", c>>

\* day.strftime(fmt) from position i on: directives are replaced, every other
\* character is copied.
RECURSIVE FormatFrom(_, _, _, _)
FormatFrom(fmt, i, day, pad) ==
    IF i > Len(fmt) THEN <<>>
    ELSE IF fmt[i] = "%" /\ i < Len(fmt)
         THEN Directive(fmt[i + 1], day, pad) \o FormatFrom(fmt, i + 2, day, pad)
         ELSE <<fmt[i]>> \o FormatFrom(fmt, i + 1, day, pad)

\* day.strftime(INDEX_DATE_FORMAT)
Strftime(day, pad) == FormatFrom(IndexDateFormat, 1, day, pad)

\* self.datetime.strftime(self._index_prefix + INDEX_DATE_FORMAT) of
\* LogEntry.save: the prefix is part of the format.
SaveIndexValue(prefix, day, pad) == FormatFrom(prefix \o IndexDateFormat, 1, day, pad)

\* ElasticsearchLogs.index_name(day) of a manager with this prefix.
IndexNameValue(prefix, day, pad) == prefix \o Strftime(day, pad)

\* The date can_delete_index parses from index[len(prefix):].
IndexDate(prefix, index) == Strptime(Rest(index, Len(prefix) + 1))

IndexOrdinal(prefix, index) ==
    LET dt == IndexDate(prefix, index) IN Ordinal(dt.y, dt.m, dt.d)

\* ------------------------------------------------------------------------
\* The deployment: callers, managers, processes, prefixes, inputs
\* ------------------------------------------------------------------------

Threads == {"t1", "t2"}

Managers == {"m1", "m2"}

Procs == {"p1", "p2"}

\* INDEX_NAME_PREFIX stands for a short prefix of the same shape.
PrefixA == <<"l", "g", "_">>

PrefixB == <<"a", "u", "_">>

\* A prefix _valid_index_prefix accepts that holds a percent sign.
PrefixPct == <<"a", "%", "d", "_">>

Prefixes == {PrefixA, PrefixB, PrefixPct}

Day0308 == <<"2", "0", "2", "4", "-", "0", "3", "-", "0", "8">>

Day0309 == <<"2", "0", "2", "4", "-", "0", "3", "-", "0", "9">>

Day0310 == <<"2", "0", "2", "4", "-", "0", "3", "-", "1", "0">>

\* The indices the backend holds at the start.
StoredNames == {PrefixA \o Day0308, PrefixA \o Day0309, PrefixA \o Day0310}

\* Names strptime accepts although they are not zero-padded.
LenientNames == {PrefixA \o <<"2", "0", "2", "4", "-", "3", "-", "9">>}

\* Names _valid_index_name refuses for prefix PrefixA: an impossible date,
\* trailing characters, another prefix, a wildcard, the bare prefix.
MalformedNames ==
    {PrefixA \o <<"2", "0", "2", "4", "-", "1", "3", "-", "4", "0">>,
     PrefixA \o <<"2", "0", "2", "4", "-", "0", "1", "-", "0", "1", "x">>,
     PrefixB \o Day0308,
     PrefixA \o <<"*">>,
     PrefixA}

AllNames == StoredNames \cup LenientNames \cup MalformedNames

\* The length of a date formatted with INDEX_DATE_FORMAT.
DateLen == 10

\* A prefix of n allowed characters.
LongPrefix(n) == [i \in 1..n |-> "a"]

\* Prefixes for index_name: a short one, the longest ones that leave room for
\* the date or not, the longest _valid_index_prefix accepts, and one it
\* refuses.
NamePrefixes ==
    {PrefixA, PrefixPct} \cup
    {LongPrefix(n) : n \in {PatternMaxLen - DateLen, PatternMaxLen - DateLen + 1,
                            PatternMaxLen, PatternMaxLen + 1}}

\* Days of the records LogEntry.save writes.
SaveDays == {[y |-> 2024, m |-> 3, d |-> 9], [y |-> 2024, m |-> 12, d |-> 1]}

\* Days for index_name.
NameDays ==
    {[y |-> y, m |-> m, d |-> d] : y \in {999, 1000, 2024, 9999}, m \in {1, 2, 12},
                                   d \in {1, 9, 29}}
       \ {[y |-> y, m |-> 2, d |-> 29] : y \in {999, 1000, 9999}}

NoDay == [y |-> 0, m |-> 0, d |-> 0]

\* How many days around 2024-03-10 the cutoffs of can_delete_index span.
CutoffSpan == 1

CutoffBase == Ordinal(2024, 3, 10)

AllCutoffs ==
    {[ord |-> o, sec |-> s] : o \in (CutoffBase - CutoffSpan)..(CutoffBase + CutoffSpan),
                              s \in {0, 1, 43200}}

\* ------------------------------------------------------------------------
\* State
\* ------------------------------------------------------------------------

VARIABLES
    cfg,          \* the deployment: callers, managers, their process and prefix, inputs
    force,        \* ELASTICSEARCH_FORCE_INDEX_TEMPLATE_UPDATE.lower() == "true"
    initialized,  \* manager -> self._initialized
    client,       \* manager -> self._client: "None" or "conn"
    tmplConn,     \* process -> the connection registry holds the template alias
    leInit,       \* process -> LogEntry._initialized
    lePrefix,     \* process -> LogEntry._index_prefix (<<>> before LogEntry.init)
    templates,    \* backend: prefix -> the template registered under it
    indices,      \* backend: the names of the indices it holds
    call,         \* caller -> the frame of its current or last call
    inits,        \* manager -> initialization sequences that set _initialized
    regs,         \* manager -> put_template requests of it the backend accepted
    provisioned,  \* manager -> a lookup of it found the template, or a
                  \* put_template of it was accepted
    lastInit      \* process -> the manager whose _initialize called
                  \* LogEntry.init last ("none" before the first call)

vars == <<cfg, force, initialized, client, tmplConn, leInit, lePrefix,
          templates, indices, call, inits, regs, provisioned, lastInit>>

NoName == <<>>

NoCutoff == [ord |-> 0, sec |-> 0]

NoTemplate == [name |-> <<>>, pattern |-> <<>>]

\* cls._index.as_template(cls._index_prefix): the template of index_prefix + "*".
TemplateDefinition(prefix) == [name |-> prefix, pattern |-> prefix \o <<"*">>]

\* A template an earlier version registered under the prefix, with another
\* definition.
StaleTemplate(prefix) == [name |-> prefix, pattern |-> prefix \o <<"-", "*">>]

NoResult == [kind |-> "none", tag |-> "", names |-> {}]

Return(tag, names) == [kind |-> "return", tag |-> tag, names |-> names]

Raise(exc) == [kind |-> "raise", tag |-> exc, names |-> {}]

\* The caller's record of a retention sweep: the cutoff, the names it found
\* deletable, those still to delete, those delete_index returned, and those
\* it returned None for.
NoSweep == [phase |-> "off", cutoff |-> NoCutoff, plan |-> {}, todo |-> {},
            deleted |-> {}, failed |-> {}]

\* A fresh frame.  opened, reqs, lookup, pending, relFail and answer record
\* what the call did: whether it created the connections, the backend
\* requests it sent, what get_template answered, the exception pending when
\* the finally block was entered ("none" for none, "" when it was not
\* entered), whether remove_connection raised KeyError, and what the backend
\* answered to the request of the operation itself ("" before it).  sweep is
\* what the caller keeps across the calls of a retention sweep, day the day
\* given to index_name.
Frame(op, m, name, cutoff) ==
    [op |-> op, mgr |-> m, name |-> name, cutoff |-> cutoff, pc |-> "idle",
     result |-> NoResult, opened |-> FALSE, reqs |-> <<>>, lookup |-> "none",
     pending |-> "", relFail |-> FALSE, answer |-> "", sweep |-> NoSweep,
     day |-> NoDay]

IdleFrame == Frame("none", "m1", NoName, NoCutoff)

PrefixOf(m) == cfg.prefixOf[m]

ProcOf(m) == cfg.procOf[m]

Idle(t) == t \in cfg.threads /\ call[t].pc \in {"idle", "done"}

Done(f, result) == [f EXCEPT !.pc = "done", !.result = result]

Sent(f, req) == [f EXCEPT !.reqs = Append(@, req)]

\* The errors the backend can answer a request with.
AllFaults == {"NotFoundError", "AuthorizationException", "TransportError"}

\* The answers to a request that can fail with the errors S: none of them, or
\* one the deployment's backend produces.
Faults(S) == {"none"} \cup (S \cap cfg.faults)

\* The managers a caller reaches: those of its process.
MgrsOf(t) == {m \in cfg.mgrs : cfg.procOf[m] = cfg.home[t]}

CfgOne == [threads |-> {"t1"}, mgrs |-> {"m1"},
           procOf |-> [m \in Managers |-> "p1"],
           prefixOf |-> [m \in Managers |-> PrefixA],
           home |-> [t \in Threads |-> "p1"],
           names |-> AllNames, cutoffs |-> AllCutoffs,
           faults |-> AllFaults, denied |-> {},
           days |-> NameDays, padYear |-> TRUE,
           templates0 |-> {[x \in Prefixes |-> NoTemplate],
                           [x \in Prefixes |-> TemplateDefinition(x)]}]

InitWith(c) ==
    /\ cfg = c
    /\ force \in BOOLEAN
    /\ initialized = [m \in Managers |-> FALSE]
    /\ client = [m \in Managers |-> "None"]
    /\ tmplConn = [p \in Procs |-> FALSE]
    /\ leInit = [p \in Procs |-> FALSE]
    /\ lePrefix = [p \in Procs |-> <<>>]
    /\ templates \in c.templates0
    /\ indices = StoredNames
    /\ call = [t \in Threads |-> IdleFrame]
    /\ inits = [m \in Managers |-> 0]
    /\ regs = [m \in Managers |-> 0]
    /\ provisioned = [m \in Managers |-> FALSE]
    /\ lastInit = [p \in Procs |-> "none"]

\* Two callers of one manager in one process, with one well-formed and one
\* malformed name.
CfgTwoCallers == [CfgOne EXCEPT !.threads = {"t1", "t2"},
                                !.names = {PrefixA \o Day0308, PrefixA \o <<"*">>},
                                !.cutoffs = {[ord |-> CutoffBase, sec |-> 0]}]

Init == InitWith(CfgOne)

InitTwoCallers == InitWith(CfgTwoCallers)

\* Two processes, each with one caller and one manager of the same prefix,
\* against one backend that holds no template, the template of this version
\* or that of an earlier one.
CfgProcs == [CfgOne EXCEPT !.threads = {"t1", "t2"}, !.mgrs = {"m1", "m2"},
                           !.procOf = [m \in Managers |->
                                          IF m = "m1" THEN "p1" ELSE "p2"],
                           !.home = [t \in Threads |->
                                          IF t = "t1" THEN "p1" ELSE "p2"],
                           !.templates0 = @ \cup {[x \in Prefixes |-> StaleTemplate(x)]}]

InitProcs == InitWith(CfgProcs)

\* One process with one caller and two managers of different prefixes, the
\* second prefix with or without a percent sign, writing records through
\* LogEntry.
CfgSchema(prefix) ==
    [CfgOne EXCEPT !.mgrs = {"m1", "m2"},
                   !.prefixOf = [m \in Managers |->
                                    IF m = "m1" THEN PrefixA ELSE prefix],
                   !.days = SaveDays]

InitSchema == \E prefix \in {PrefixB, PrefixPct} : InitWith(CfgSchema(prefix))

\* One manager with any of the prefixes for index_name, on a platform of
\* either kind.
InitNames ==
    \E prefix \in NamePrefixes, pad \in BOOLEAN :
       InitWith([CfgOne EXCEPT !.prefixOf = [m \in Managers |-> prefix],
                               !.padYear = pad])

\* One caller running retention sweeps over the stored indices against a
\* backend that answers every request, and refuses to delete the index of
\* 2024-03-09.
CfgSweep == [CfgOne EXCEPT !.names = StoredNames, !.faults = {},
                           !.denied = {PrefixA \o Day0309}]

InitSweep == InitWith(CfgSweep)


\* ------------------------------------------------------------------------
\* ElasticsearchLogs._initialize and LogEntry.init
\* ------------------------------------------------------------------------

\* _valid_index_name tabulated over the prefixes and the input names.
ValidIndexNameTable ==
    [p \in Prefixes |-> [n \in AllNames |-> ValidIndexName(p, n)]]

\* The assertion of delete_index and can_delete_index.
AssertValidIndexName(prefix, index) == ValidIndexNameTable[prefix][index]

\* LogEntry.init up to create_or_update_template: cls._index_prefix is bound
\* to the prefix of the manager that calls it.
LogEntryInit(p, m) ==
    /\ lePrefix' = [lePrefix EXCEPT ![p] = PrefixOf(m)]
    /\ lastInit' = [lastInit EXCEPT ![p] = m]

\* Mutant of HandlerCatches: "except Exception" instead of "except NotFoundError".
HandlerCatchesAny(exc) == TRUE

\* except NotFoundError: what the handler of the try block catches.
HandlerCatches(exc) == exc = "NotFoundError"

\* The positions of a call inside the initialization sequence.
InitializePcs == {"get_template", "put", "put_handler"}

\* Mutant of MustInitialize: the guard on the flag is missing.
MustInitializeAlways(m) == TRUE

\* The guard of _initialize: the body runs when the flag is not set.
MustInitialize(m) == ~initialized[m]

\* The frame once _initialize has returned to the operation that called it:
\* configure_es returns, list_indices goes on to its request, delete_index
\* asserts the name and goes on to its request.
AfterInitialize(f) ==
    CASE f.op = "initialize" -> Done(f, Return("ok", {}))
      [] f.op = "list_indices" -> [f EXCEPT !.pc = "list"]
      [] f.op = "delete_index" ->
            IF AssertValidIndexName(PrefixOf(f.mgr), f.name)
            THEN [f EXCEPT !.pc = "delete"]
            ELSE Done(f, Raise("AssertionError"))

\* Lines 130-160: nothing when the flag is set; otherwise both connections
\* are created and the call stands before get_template.
EnterInitialize(t, f) ==
    LET m == f.mgr
        p == ProcOf(m)
    IN IF MustInitialize(m)
       THEN /\ client' = [client EXCEPT ![m] = "conn"]
            /\ tmplConn' = [tmplConn EXCEPT ![p] = TRUE]
            /\ call' = [call EXCEPT ![t] = [f EXCEPT !.pc = "get_template",
                                                     !.opened = TRUE]]
       ELSE /\ call' = [call EXCEPT ![t] = AfterInitialize(f)]
            /\ UNCHANGED <<client, tmplConn>>

\* Mutant of LeaveInitialize: the flag is set inside the finally block, so
\* also when an exception is pending.
LeaveInitializeFlagInFinally(t, f, exc) ==
    LET m == f.mgr
        p == ProcOf(m)
        g == [f EXCEPT !.relFail = ~tmplConn[p], !.pending = exc]
    IN /\ tmplConn' = [tmplConn EXCEPT ![p] = FALSE]
       /\ initialized' = [initialized EXCEPT ![m] = TRUE]
       /\ inits' = [inits EXCEPT ![m] = @ + 1]
       /\ call' = [call EXCEPT ![t] = IF exc = "none" THEN AfterInitialize(g)
                                      ELSE Done(g, Raise(exc))]

\* Mutant of LeaveInitialize: remove_connection follows the try block without
\* a finally, so a pending exception skips it.
LeaveInitializeNoFinally(t, f, exc) ==
    LET m == f.mgr
        p == ProcOf(m)
        g == [f EXCEPT !.pending = exc]
    IN IF exc = "none"
       THEN /\ tmplConn' = [tmplConn EXCEPT ![p] = FALSE]
            /\ initialized' = [initialized EXCEPT ![m] = TRUE]
            /\ inits' = [inits EXCEPT ![m] = @ + 1]
            /\ call' = [call EXCEPT ![t] =
                          AfterInitialize([g EXCEPT !.relFail = ~tmplConn[p]])]
       ELSE /\ call' = [call EXCEPT ![t] = Done(g, Raise(exc))]
            /\ UNCHANGED <<tmplConn, initialized, inits>>

\* Mutant of LeaveInitialize: the KeyError of remove_connection is not caught.
LeaveInitializeKeyErrorEscapes(t, f, exc) ==
    LET m == f.mgr
        p == ProcOf(m)
        g == [f EXCEPT !.relFail = ~tmplConn[p], !.pending = exc]
    IN /\ tmplConn' = [tmplConn EXCEPT ![p] = FALSE]
       /\ IF exc = "none" /\ ~g.relFail
          THEN /\ initialized' = [initialized EXCEPT ![m] = TRUE]
               /\ inits' = [inits EXCEPT ![m] = @ + 1]
               /\ call' = [call EXCEPT ![t] = AfterInitialize(g)]
          ELSE /\ call' = [call EXCEPT ![t] =
                             Done(g, Raise(IF g.relFail THEN "KeyError" ELSE exc))]
               /\ UNCHANGED <<initialized, inits>>

\* The finally block (remove_connection, a KeyError only logged) and what
\* follows it: with no exception pending the flag is set and _initialize
\* returns; with one pending it propagates and the flag is left alone.
LeaveInitialize(t, f, exc) ==
    LET m == f.mgr
        p == ProcOf(m)
        g == [f EXCEPT !.relFail = ~tmplConn[p], !.pending = exc]
    IN /\ tmplConn' = [tmplConn EXCEPT ![p] = FALSE]
       /\ IF exc = "none"
          THEN /\ initialized' = [initialized EXCEPT ![m] = TRUE]
               /\ inits' = [inits EXCEPT ![m] = @ + 1]
               /\ call' = [call EXCEPT ![t] = AfterInitialize(g)]
          ELSE /\ call' = [call EXCEPT ![t] = Done(g, Raise(exc))]
               /\ UNCHANGED <<initialized, inits>>

\* _initialize called by configure_es (or directly).
Initialize(t) ==
    /\ Idle(t)
    /\ \E m \in MgrsOf(t) : EnterInitialize(t, Frame("initialize", m, NoName, NoCutoff))
    /\ UNCHANGED <<cfg, force, initialized, leInit, lePrefix, lastInit,
                   templates, indices, inits, regs, provisioned>>

\* Mutant of GetTemplate: the handler of NotFoundError passes
\* skip_template_init=not force_template_update as the try body does.
GetTemplateHandlerSkips(t) ==
    LET f == Sent(call[t], "get_template")
        m == f.mgr
        p == ProcOf(m)
    IN /\ t \in cfg.threads
       /\ call[t].pc = "get_template"
       /\ \E fault \in Faults({"AuthorizationException", "TransportError"}) :
            LET answer == IF fault # "none" THEN fault
                          ELSE IF templates[PrefixOf(m)] # NoTemplate THEN "found"
                          ELSE "NotFoundError"
                g == [f EXCEPT !.lookup = answer]
            IN /\ provisioned' = [provisioned EXCEPT ![m] = @ \/ answer = "found"]
               /\ CASE (answer = "found" \/ HandlerCatches(answer)) /\ ~force ->
                         /\ LogEntryInit(p, m)
                         /\ leInit' = [leInit EXCEPT ![p] = TRUE]
                         /\ LeaveInitialize(t, g, "none")
                    [] answer = "found" /\ force ->
                         /\ LogEntryInit(p, m)
                         /\ call' = [call EXCEPT ![t] = [g EXCEPT !.pc = "put"]]
                         /\ UNCHANGED <<leInit, tmplConn, initialized, inits>>
                    [] answer # "found" /\ HandlerCatches(answer) ->
                         /\ LogEntryInit(p, m)
                         /\ call' = [call EXCEPT ![t] = [g EXCEPT !.pc = "put_handler"]]
                         /\ UNCHANGED <<leInit, tmplConn, initialized, inits>>
                    [] OTHER ->
                         /\ LeaveInitialize(t, g, answer)
                         /\ UNCHANGED <<leInit, lePrefix, lastInit>>
       /\ UNCHANGED <<cfg, force, client, templates, indices, regs>>

\* self._client.indices.get_template(self._index_prefix) and the code up to
\* the next request: LogEntry.init in the try body when the template is
\* found (put_template skipped unless forced), LogEntry.init in the handler
\* on NotFoundError, the finally block on any other error.
GetTemplate(t) ==
    LET f == Sent(call[t], "get_template")
        m == f.mgr
        p == ProcOf(m)
    IN /\ t \in cfg.threads
       /\ call[t].pc = "get_template"
       /\ \E fault \in Faults({"AuthorizationException", "TransportError"}) :
            LET answer == IF fault # "none" THEN fault
                          ELSE IF templates[PrefixOf(m)] # NoTemplate THEN "found"
                          ELSE "NotFoundError"
                g == [f EXCEPT !.lookup = answer]
            IN /\ provisioned' = [provisioned EXCEPT ![m] = @ \/ answer = "found"]
               /\ CASE answer = "found" /\ ~force ->
                         /\ LogEntryInit(p, m)
                         /\ leInit' = [leInit EXCEPT ![p] = TRUE]
                         /\ LeaveInitialize(t, g, "none")
                    [] answer = "found" /\ force ->
                         /\ LogEntryInit(p, m)
                         /\ call' = [call EXCEPT ![t] = [g EXCEPT !.pc = "put"]]
                         /\ UNCHANGED <<leInit, tmplConn, initialized, inits>>
                    [] answer # "found" /\ HandlerCatches(answer) ->
                         /\ LogEntryInit(p, m)
                         /\ call' = [call EXCEPT ![t] = [g EXCEPT !.pc = "put_handler"]]
                         /\ UNCHANGED <<leInit, tmplConn, initialized, inits>>
                    [] OTHER ->
                         /\ LeaveInitialize(t, g, answer)
                         /\ UNCHANGED <<leInit, lePrefix, lastInit>>
       /\ UNCHANGED <<cfg, force, client, templates, indices, regs>>

\* LogEntry.create_or_update_template: index_template.save(using=the template
\* alias) and the code after it.  Without the alias in the registry
\* get_connection raises KeyError and nothing is sent.  A NotFoundError in the
\* try body is caught by the handler, which calls LogEntry.init again; in the
\* handler it propagates.
PutTemplate(t) ==
    LET m == call[t].mgr
        p == ProcOf(m)
        f == Sent(call[t], "put_template")
    IN /\ t \in cfg.threads
       /\ call[t].pc \in {"put", "put_handler"}
       /\ IF ~tmplConn[p]
          THEN /\ LeaveInitialize(t, call[t], "KeyError")
               /\ UNCHANGED <<templates, regs, provisioned, leInit, lePrefix,
                              lastInit>>
          ELSE \E fault \in Faults(AllFaults) :
                 CASE fault = "none" ->
                        /\ templates' = [templates EXCEPT
                                           ![lePrefix[p]] = TemplateDefinition(lePrefix[p])]
                        /\ regs' = [regs EXCEPT ![m] = @ + 1]
                        /\ provisioned' = [provisioned EXCEPT ![m] = TRUE]
                        /\ leInit' = [leInit EXCEPT ![p] = TRUE]
                        /\ LeaveInitialize(t, f, "none")
                        /\ UNCHANGED <<lePrefix, lastInit>>
                   [] fault # "none" /\ call[t].pc = "put" /\ HandlerCatches(fault) ->
                        /\ LogEntryInit(p, m)
                        /\ call' = [call EXCEPT ![t] = [f EXCEPT !.pc = "put_handler"]]
                        /\ UNCHANGED <<templates, regs, provisioned, leInit, tmplConn,
                                       initialized, inits>>
                   [] OTHER ->
                        /\ LeaveInitialize(t, f, fault)
                        /\ UNCHANGED <<templates, regs, provisioned, leInit,
                                       lePrefix, lastInit>>
       /\ UNCHANGED <<cfg, force, client, indices>>


\* ------------------------------------------------------------------------
\* list_indices, delete_index, index_exists, can_delete_index
\* ------------------------------------------------------------------------

\* list_indices up to its request: self._initialize().
ListIndices(t) ==
    /\ Idle(t)
    /\ \E m \in MgrsOf(t) : EnterInitialize(t, Frame("list_indices", m, NoName, NoCutoff))
    /\ UNCHANGED <<cfg, force, initialized, leInit, lePrefix, lastInit,
                   templates, indices, inits, regs, provisioned>>

\* Mutant of ListIndicesResult: AuthorizationException answered like
\* NotFoundError.
ListIndicesResultEmptyOnUnauthorized(answer, matching) ==
    CASE answer = "ok" -> Return("list", matching)
      [] answer \in {"NotFoundError", "AuthorizationException"} -> Return("list", {})
      [] OTHER -> Raise(answer)

\* What list_indices makes of the backend's answer: the names, [] on
\* NotFoundError, None on AuthorizationException; any other error propagates.
ListIndicesResult(answer, matching) ==
    CASE answer = "ok" -> Return("list", matching)
      [] answer = "NotFoundError" -> Return("list", {})
      [] answer = "AuthorizationException" -> Return("None", {})
      [] OTHER -> Raise(answer)

\* self._client.indices.get(prefix + "*") of list_indices.
ListIndicesRequest(t) ==
    LET matching == {n \in indices : StartsWith(n, PrefixOf(call[t].mgr))}
    IN /\ t \in cfg.threads
       /\ call[t].pc = "list"
       /\ \E fault \in Faults(AllFaults) :
            LET answer == IF fault = "none" THEN "ok" ELSE fault
                f == [Sent(call[t], "list") EXCEPT !.answer = answer]
            IN /\ fault = "NotFoundError" => matching = {}
               /\ call' = [call EXCEPT ![t] =
                             Done(f, ListIndicesResult(answer, matching))]
       /\ UNCHANGED <<cfg, force, initialized, client, tmplConn, leInit,
                      lePrefix, lastInit, templates, indices, inits, regs,
                      provisioned>>

\* delete_index up to its request: self._initialize(), then the assertion.
DeleteIndex(t) ==
    /\ Idle(t)
    /\ \E m \in MgrsOf(t), index \in cfg.names :
          EnterInitialize(t, Frame("delete_index", m, index, NoCutoff))
    /\ UNCHANGED <<cfg, force, initialized, leInit, lePrefix, lastInit,
                   templates, indices, inits, regs, provisioned>>

\* Mutant of DeleteIndexResult: the name is returned on NotFoundError as well.
DeleteIndexResultNameOnNotFound(answer, index) ==
    CASE answer \in {"ok", "NotFoundError"} -> Return("index", {index})
      [] answer = "AuthorizationException" -> Return("None", {})
      [] OTHER -> Raise(answer)

\* Mutant of DeleteIndexResult: AuthorizationException is not caught.
DeleteIndexResultUnauthorizedRaises(answer, index) ==
    CASE answer = "ok" -> Return("index", {index})
      [] answer = "NotFoundError" -> Return("None", {})
      [] OTHER -> Raise(answer)

\* What delete_index makes of the backend's answer: the name when the backend
\* deleted the index, None on NotFoundError and on AuthorizationException; any
\* other error propagates.
DeleteIndexResult(answer, index) ==
    CASE answer = "ok" -> Return("index", {index})
      [] answer = "NotFoundError" -> Return("None", {})
      [] answer = "AuthorizationException" -> Return("None", {})
      [] OTHER -> Raise(answer)

\* self._client.indices.delete(index): the backend refuses what the caller
\* may not delete, misses what it does not hold and deletes the rest.
DeleteIndexRequest(t) ==
    /\ t \in cfg.threads
    /\ call[t].pc = "delete"
    /\ \E fault \in Faults({"AuthorizationException", "TransportError"}) :
         LET index == call[t].name
             answer == IF fault # "none" THEN fault
                       ELSE IF index \in cfg.denied THEN "AuthorizationException"
                       ELSE IF index \in indices THEN "ok"
                       ELSE "NotFoundError"
             f == [Sent(call[t], "delete") EXCEPT !.answer = answer]
         IN /\ indices' = IF answer = "ok" THEN indices \ {index} ELSE indices
            /\ call' = [call EXCEPT ![t] = Done(f, DeleteIndexResult(answer, index))]
    /\ UNCHANGED <<cfg, force, initialized, client, tmplConn, leInit, lePrefix,
                   lastInit, templates, inits, regs, provisioned>>

\* index_exists up to its request: no _initialize; self._client is used as it
\* is, and None has no attribute indices.
IndexExists(t) ==
    /\ Idle(t)
    /\ \E m \in MgrsOf(t), index \in cfg.names :
          LET f == Frame("index_exists", m, index, NoCutoff)
          IN call' = [call EXCEPT ![t] =
                 IF client[m] = "None" THEN Done(f, Raise("AttributeError"))
                 ELSE [f EXCEPT !.pc = "exists"]]
    /\ UNCHANGED <<cfg, force, initialized, client, tmplConn, leInit, lePrefix,
                   lastInit, templates, indices, inits, regs, provisioned>>

\* What index_exists makes of the backend's answer: whether the name is in
\* the answer, False on NotFoundError; any other error propagates.
IndexExistsResult(answer) ==
    CASE answer = "ok" -> Return("True", {})
      [] answer = "NotFoundError" -> Return("False", {})
      [] OTHER -> Raise(answer)

\* index in self._client.indices.get(index).
IndexExistsRequest(t) ==
    /\ t \in cfg.threads
    /\ call[t].pc = "exists"
    /\ \E fault \in Faults({"AuthorizationException", "TransportError"}) :
         LET answer == IF fault # "none" THEN fault
                       ELSE IF call[t].name \in indices THEN "ok"
                       ELSE "NotFoundError"
             f == [Sent(call[t], "get") EXCEPT !.answer = answer]
         IN call' = [call EXCEPT ![t] = Done(f, IndexExistsResult(answer))]
    /\ UNCHANGED <<cfg, force, initialized, client, tmplConn, leInit, lePrefix,
                   lastInit, templates, indices, inits, regs, provisioned>>

\* can_delete_index(index, cutoff_date): the assertion, then the comparison.
CanDeleteIndexValue(prefix, index, cutoff) ==
    IF ~AssertValidIndexName(prefix, index) THEN Raise("AssertionError")
    ELSE IF RetentionExpired(IndexOrdinal(prefix, index), cutoff)
         THEN Return("True", {})
         ELSE Return("False", {})

\* can_delete_index tabulated over the prefixes and the inputs.
CanDeleteIndexTable ==
    [p \in Prefixes |-> [n \in AllNames |-> [c \in AllCutoffs |->
        CanDeleteIndexValue(p, n, c)]]]

CanDeleteIndex(t) ==
    /\ Idle(t)
    /\ \E m \in MgrsOf(t), index \in cfg.names, cutoff \in cfg.cutoffs :
          LET f == Frame("can_delete_index", m, index, cutoff)
          IN call' = [call EXCEPT ![t] =
                 Done(f, CanDeleteIndexTable[PrefixOf(m)][index][cutoff])]
    /\ UNCHANGED <<cfg, force, initialized, client, tmplConn, leInit, lePrefix,
                   lastInit, templates, indices, inits, regs, provisioned>>

\* index_name(day).
IndexName(t) ==
    /\ Idle(t)
    /\ \E m \in MgrsOf(t), day \in cfg.days :
          LET f == [Frame("index_name", m, NoName, NoCutoff) EXCEPT !.day = day]
          IN call' = [call EXCEPT ![t] =
                Done(f, Return("index", {IndexNameValue(PrefixOf(m), day,
                                                        cfg.padYear)}))]
    /\ UNCHANGED <<cfg, force, initialized, client, tmplConn, leInit, lePrefix,
                   lastInit, templates, indices, inits, regs, provisioned>>

\* _valid_index_name(index) for the name index_name returned.
ValidateIndexName(t) ==
    /\ Idle(t)
    /\ call[t].op = "index_name"
    /\ \E index \in call[t].result.names :
          LET f == [Frame("_valid_index_name", call[t].mgr, index, NoCutoff) EXCEPT
                       !.day = call[t].day]
          IN call' = [call EXCEPT ![t] =
                Done(f, Return(IF ValidIndexName(PrefixOf(f.mgr), index)
                               THEN "True" ELSE "False", {}))]
    /\ UNCHANGED <<cfg, force, initialized, client, tmplConn, leInit, lePrefix,
                   lastInit, templates, indices, inits, regs, provisioned>>

\* LogEntry.save up to its request: the assertion on LogEntry._initialized,
\* then the name of the index from the class's prefix and the record's day.
Save(t) ==
    /\ Idle(t)
    /\ \E m \in MgrsOf(t), day \in cfg.days :
          LET p == ProcOf(m)
              f == [Frame("save", m, NoName, NoCutoff) EXCEPT !.day = day]
          IN call' = [call EXCEPT ![t] =
                IF ~leInit[p] THEN Done(f, Raise("AssertionError"))
                ELSE [f EXCEPT !.pc = "save",
                               !.name = SaveIndexValue(lePrefix[p], day, cfg.padYear)]]
    /\ UNCHANGED <<cfg, force, initialized, client, tmplConn, leInit, lePrefix,
                   lastInit, templates, indices, inits, regs, provisioned>>

\* Document.save(index=...): the backend stores the record in the index of
\* that name, which it creates when it does not hold it.
SaveRequest(t) ==
    /\ t \in cfg.threads
    /\ call[t].pc = "save"
    /\ \E fault \in Faults({"AuthorizationException", "TransportError"}) :
         LET answer == IF fault # "none" THEN fault ELSE "ok"
             f == [Sent(call[t], "index") EXCEPT !.answer = answer]
         IN /\ indices' = IF answer = "ok" THEN indices \cup {f.name} ELSE indices
            /\ call' = [call EXCEPT ![t] =
                  IF answer = "ok" THEN Done(f, Return("index", {f.name}))
                  ELSE Done(f, Raise(answer))]
    /\ UNCHANGED <<cfg, force, initialized, client, tmplConn, leInit, lePrefix,
                   lastInit, templates, inits, regs, provisioned>>

\* ------------------------------------------------------------------------
\* The retention sweep composed by the caller
\* ------------------------------------------------------------------------

\* The sweep starts: list_indices, for a cutoff the caller supplies.
SweepList(t) ==
    /\ Idle(t)
    /\ call[t].sweep.phase \in {"off", "done"}
    /\ \E m \in MgrsOf(t), cutoff \in cfg.cutoffs :
          EnterInitialize(t, [Frame("list_indices", m, NoName, NoCutoff) EXCEPT
                                !.sweep = [NoSweep EXCEPT !.phase = "list",
                                                          !.cutoff = cutoff]])
    /\ UNCHANGED <<cfg, force, initialized, leInit, lePrefix, lastInit,
                   templates, indices, inits, regs, provisioned>>

\* can_delete_index for each name list_indices returned: the sweep goes on
\* with the names it is True for; an exception ends the sweep.
SweepPlan(t) ==
    LET f == call[t]
        verdict(n) == CanDeleteIndexTable[PrefixOf(f.mgr)][n][f.sweep.cutoff]
        eligible == {n \in f.result.names : verdict(n) = Return("True", {})}
        listed == /\ f.result.kind = "return"
                  /\ f.result.tag = "list"
                  /\ \A n \in f.result.names : verdict(n).kind = "return"
    IN /\ t \in cfg.threads
       /\ f.pc = "done"
       /\ f.sweep.phase = "list"
       /\ call' = [call EXCEPT ![t].sweep =
             IF listed
             THEN [@ EXCEPT !.phase = IF eligible = {} THEN "done" ELSE "work",
                            !.plan = eligible, !.todo = eligible]
             ELSE [@ EXCEPT !.phase = "aborted"]]
       /\ UNCHANGED <<cfg, force, initialized, client, tmplConn, leInit,
                      lePrefix, lastInit, templates, indices, inits, regs,
                      provisioned>>

\* delete_index for one of the names still to delete.
SweepDelete(t) ==
    /\ Idle(t)
    /\ call[t].sweep.phase = "work"
    /\ \E n \in call[t].sweep.todo :
          EnterInitialize(t, [Frame("delete_index", call[t].mgr, n, NoCutoff) EXCEPT
                                !.sweep = [call[t].sweep EXCEPT !.phase = "delete",
                                                                !.todo = @ \ {n}]])
    /\ UNCHANGED <<cfg, force, initialized, leInit, lePrefix, lastInit,
                   templates, indices, inits, regs, provisioned>>

\* The caller notes what delete_index gave it: the name as deleted, None as a
\* failure; an exception ends the sweep.
SweepRecord(t) ==
    LET f == call[t]
        next == IF f.sweep.todo = {} THEN "done" ELSE "work"
    IN /\ t \in cfg.threads
       /\ f.pc = "done"
       /\ f.sweep.phase = "delete"
       /\ call' = [call EXCEPT ![t].sweep =
             CASE f.result = Return("index", {f.name}) ->
                    [@ EXCEPT !.phase = next, !.deleted = @ \cup {f.name}]
               [] f.result = Return("None", {}) ->
                    [@ EXCEPT !.phase = next, !.failed = @ \cup {f.name}]
               [] OTHER -> [@ EXCEPT !.phase = "aborted"]]
       /\ UNCHANGED <<cfg, force, initialized, client, tmplConn, leInit,
                      lePrefix, lastInit, templates, indices, inits, regs,
                      provisioned>>

\* ------------------------------------------------------------------------
\* Specifications
\* ------------------------------------------------------------------------

Next ==
    \/ \E t \in Threads : Initialize(t)
    \/ \E t \in Threads : GetTemplate(t)
    \/ \E t \in Threads : PutTemplate(t)
    \/ \E t \in Threads : ListIndices(t)
    \/ \E t \in Threads : ListIndicesRequest(t)
    \/ \E t \in Threads : DeleteIndex(t)
    \/ \E t \in Threads : DeleteIndexRequest(t)
    \/ \E t \in Threads : IndexExists(t)
    \/ \E t \in Threads : IndexExistsRequest(t)
    \/ \E t \in Threads : CanDeleteIndex(t)

\* One caller, one manager: the calls follow each other.
Spec == Init /\ [][Next]_vars


\* Two callers of one manager in one process: a caller can run wherever
\* another one waits for the backend.
SpecTwoCallers == InitTwoCallers /\ [][Next]_vars

NextProcs ==
    \/ \E t \in Threads : Initialize(t)
    \/ \E t \in Threads : GetTemplate(t)
    \/ \E t \in Threads : PutTemplate(t)

\* Two processes provisioning the same prefix against one backend.
SpecProcs == InitProcs /\ [][NextProcs]_vars

NextSchema ==
    \/ \E t \in Threads : Initialize(t)
    \/ \E t \in Threads : GetTemplate(t)
    \/ \E t \in Threads : PutTemplate(t)
    \/ \E t \in Threads : Save(t)
    \/ \E t \in Threads : SaveRequest(t)

\* One process whose two managers are provisioned while records are written.
SpecSchema == InitSchema /\ [][NextSchema]_vars

NextNames ==
    \/ \E t \in Threads : IndexName(t)
    \/ \E t \in Threads : ValidateIndexName(t)

\* index_name and _valid_index_name of one manager.
SpecNames == InitNames /\ [][NextNames]_vars

NextSweep ==
    \/ \E t \in Threads : SweepList(t)
    \/ \E t \in Threads : GetTemplate(t)
    \/ \E t \in Threads : PutTemplate(t)
    \/ \E t \in Threads : ListIndicesRequest(t)
    \/ \E t \in Threads : SweepPlan(t)
    \/ \E t \in Threads : SweepDelete(t)
    \/ \E t \in Threads : DeleteIndexRequest(t)
    \/ \E t \in Threads : SweepRecord(t)

\* One caller running retention sweeps, one after the other.
SpecSweep == InitSweep /\ [][NextSweep]_vars


\* ------------------------------------------------------------------------
\* Properties
\* ------------------------------------------------------------------------

\* The call of frame f sent request req.
Sends(f, req) == \E i \in 1..Len(f.reqs) : f.reqs[i] = req

\* How many times the call of frame f sent request req.
Count(f, req) == Cardinality({i \in 1..Len(f.reqs) : f.reqs[i] = req})

\* The call of frame f is a delete_index with a name its manager's
\* _valid_index_name refuses.
MalformedDelete(f) ==
    f.op = "delete_index" /\ ~ValidIndexName(PrefixOf(f.mgr), f.name)

\* C1: the backend delete is sent by delete_index only for a name that passes
\* _valid_index_name for the manager's prefix, and a delete_index call with a
\* malformed name ends in the contract failure (AssertionError) without
\* reaching the backend delete.
C1_DeleteOnlyValidatedNames ==
    \A t \in Threads :
       LET f == call[t]
       IN /\ (f.pc = "delete" \/ Sends(f, "delete")) =>
                 ValidIndexName(PrefixOf(f.mgr), f.name)
          /\ (MalformedDelete(f) /\ f.pc = "done") =>
                 (f.result = Raise("AssertionError") /\ ~Sends(f, "delete"))

\* The part of C1 that holds of the code: no delete request for a name that
\* fails _valid_index_name.
DeleteRequestsAreValidated ==
    \A t \in Threads :
       (call[t].pc = "delete" \/ Sends(call[t], "delete")) =>
           ValidIndexName(PrefixOf(call[t].mgr), call[t].name)

\* C2: a list-indices or delete-index request is sent only when the manager
\* is ready, and it is ready only after a lookup of its own found the template
\* or a put_template of its own was accepted.
C2_DataPlaneOnlyWhenReady ==
    \A t \in Threads :
       LET f == call[t]
       IN (f.pc \in {"list", "delete"} \/ Sends(f, "list") \/ Sends(f, "delete")) =>
             (initialized[f.mgr] /\ provisioned[f.mgr])

\* A call that found the manager not ready, provisioned it and sent its list
\* request.
C2_Witness ==
    \E t \in Threads :
       /\ call[t].op = "list_indices"
       /\ call[t].opened
       /\ Sends(call[t], "list")

\* C3: a delete_index call with a malformed name creates no connection and
\* sends no backend request at all, whatever the state of the manager.
C3_MalformedRejectedBeforeNetwork ==
    \A t \in Threads :
       MalformedDelete(call[t]) => (~call[t].opened /\ call[t].reqs = <<>>)

\* C4: _initialize on a manager that is ready returns at once, creating no
\* connection, sending no request and changing nothing; and over a series of
\* calls by one caller the sequence that sets the flag runs once and the
\* backend accepts at most one put_template of the manager.
C4_ReadyInitializeIsNoOp ==
    /\ [](\A m \in Managers : inits[m] <= 1 /\ regs[m] <= 1)
    /\ [][\A t \in Threads :
            (Initialize(t) /\ initialized[call'[t].mgr]) =>
               /\ call'[t].pc = "done"
               /\ call'[t].result = Return("ok", {})
               /\ ~call'[t].opened
               /\ call'[t].reqs = <<>>
               /\ UNCHANGED <<initialized, client, tmplConn, leInit, lePrefix,
                              lastInit, templates, indices, inits, regs,
                              provisioned>>]_vars

\* _initialize returned from a call that found the manager ready, after a
\* sequence that registered the template.
C4_Witness ==
    \E t \in Threads :
       /\ call[t].op = "initialize"
       /\ call[t].pc = "done"
       /\ ~call[t].opened
       /\ initialized[call[t].mgr]
       /\ inits[call[t].mgr] = 1
       /\ regs[call[t].mgr] = 1

\* C5: with several callers of one manager, at most one of them is inside the
\* initialization sequence at a time and the sequence sets the flag once.
C5_OneInitializationSequence ==
    \A m \in Managers :
       /\ Cardinality({t \in Threads : call[t].mgr = m
                                       /\ call[t].pc \in InitializePcs}) <= 1
       /\ inits[m] <= 1

\* C6: when get_template fails with an error other than NotFoundError, the
\* error is the result of the call, get_template is the only request the call
\* sent, and the manager is not ready.
C6_LookupErrorPropagates ==
    \A t \in Threads :
       LET f == call[t]
       IN f.lookup \in {"AuthorizationException", "TransportError"} =>
             /\ f.pc = "done"
             /\ f.result = Raise(f.lookup)
             /\ f.reqs = <<"get_template">>
             /\ ~initialized[f.mgr]

\* A delete_index with a well-formed name whose provisioning met an
\* unauthorized lookup.
C6_Witness ==
    \E t \in Threads :
       /\ call[t].op = "delete_index"
       /\ ValidIndexName(PrefixOf(call[t].mgr), call[t].name)
       /\ call[t].lookup = "AuthorizationException"
       /\ call[t].pc = "done"

\* C7: a provisioning attempt that has left the initialization sequence sent
\* put_template once when the lookup answered not-found, once when it found
\* the template and the update is forced, never when it found the template
\* and the update is not forced; with no exception pending the manager is
\* ready.
C7_RegistrationCount ==
    \A t \in Threads :
       LET f == call[t]
       IN (f.opened /\ f.pc \notin InitializePcs) =>
             /\ f.lookup = "NotFoundError" => Count(f, "put_template") = 1
             /\ (f.lookup = "found" /\ force) => Count(f, "put_template") = 1
             /\ (f.lookup = "found" /\ ~force) => Count(f, "put_template") = 0
             /\ f.pending = "none" => initialized[f.mgr]

\* C8: the template connection is in the registry only while a caller is
\* inside the initialization sequence: never when the callers are idle, have
\* returned or failed, or stand before a list, delete or exists request.
C8_TemplateConnectionReleased ==
    \A p \in Procs :
       tmplConn[p] => \E t \in Threads : /\ ProcOf(call[t].mgr) = p
                                         /\ call[t].pc \in InitializePcs

\* A provisioning attempt ended with an error after put_template was sent, and
\* the template connection is gone.
C8_Witness ==
    \E t \in Threads :
       /\ call[t].opened
       /\ Sends(call[t], "put_template")
       /\ call[t].pc = "done"
       /\ call[t].result = Raise("TransportError")
       /\ ~tmplConn[ProcOf(call[t].mgr)]

\* C9: when remove_connection raises KeyError with no exception pending, the
\* manager is ready and no KeyError reaches the caller: _initialize returns.
C9_ReleaseFailureOnlyLogged ==
    \A t \in Threads :
       LET f == call[t]
       IN (f.relFail /\ f.pending = "none") =>
             /\ initialized[f.mgr]
             /\ f.result # Raise("KeyError")
             /\ f.op = "initialize" => f.result = Return("ok", {})

\* _initialize returned although remove_connection raised KeyError.
C9_Witness ==
    \E t \in Threads :
       /\ call[t].op = "initialize"
       /\ call[t].relFail
       /\ call[t].pending = "none"
       /\ call[t].pc = "done"

\* The seconds from midnight of day number ord to the cutoff.
SecondsUntil(ord, cutoff) == (cutoff.ord - ord) * (24 * 60 * 60) + cutoff.sec

\* C10: for a valid name of day d and a cutoff, can_delete_index returns True
\* exactly when d < cutoff and cutoff - d >= 1 day, which is d <= cutoff - 1
\* day, and False otherwise.
C10_CanDeleteIffOneDayBefore ==
    \A t \in Threads :
       LET f == call[t]
           secs == SecondsUntil(IndexOrdinal(PrefixOf(f.mgr), f.name), f.cutoff)
       IN (f.op = "can_delete_index" /\ ValidIndexName(PrefixOf(f.mgr), f.name)) =>
             /\ f.result \in {Return("True", {}), Return("False", {})}
             /\ f.result = Return("True", {}) <=> (secs > 0 /\ secs >= 24 * 60 * 60)
             /\ (secs > 0 /\ secs >= 24 * 60 * 60) <=> (secs - 24 * 60 * 60 >= 0)

\* can_delete_index answered for a name dated exactly one day before the
\* cutoff, and for one dated less than a day before it.
C10_Witness ==
    /\ \E t \in Threads :
         /\ call[t].op = "can_delete_index"
         /\ ValidIndexName(PrefixOf(call[t].mgr), call[t].name)
         /\ SecondsUntil(IndexOrdinal(PrefixOf(call[t].mgr), call[t].name),
                         call[t].cutoff) = 24 * 60 * 60
         /\ call[t].result = Return("True", {})

\* The day number of the index of a can_delete_index frame.
FrameOrdinal(f) == IndexOrdinal(PrefixOf(f.mgr), f.name)

\* Frame f is a can_delete_index call with a valid name.
ValidCanDelete(f) ==
    f.op = "can_delete_index" /\ ValidIndexName(PrefixOf(f.mgr), f.name)

\* The cutoff 2024-03-10 00:00:00.
Cutoff0310 == [ord |-> Ordinal(2024, 3, 10), sec |-> 0]

\* C11: a name dated exactly one day before the cutoff is not deletable: with
\* the cutoff 2024-03-10, can_delete_index is True for 2024-03-08 and False for
\* 2024-03-09 and 2024-03-10, and it is False whenever cutoff - d is exactly
\* one day.
C11_ExactlyOneDayNotDeletable ==
    \A t \in Threads :
       LET f == call[t]
       IN ValidCanDelete(f) =>
             /\ SecondsUntil(FrameOrdinal(f), f.cutoff) = 24 * 60 * 60 =>
                   f.result = Return("False", {})
             /\ f.cutoff = Cutoff0310 =>
                   /\ FrameOrdinal(f) = Ordinal(2024, 3, 8) =>
                         f.result = Return("True", {})
                   /\ FrameOrdinal(f) \in {Ordinal(2024, 3, 9), Ordinal(2024, 3, 10)} =>
                         f.result = Return("False", {})

\* C11 as the code has it: a name dated exactly one day before the cutoff is
\* deletable: with the cutoff 2024-03-10, can_delete_index is True for
\* 2024-03-08 and 2024-03-09 and False for 2024-03-10, and it is True whenever
\* cutoff - d is exactly one day.
C11_ExactlyOneDayDeletable ==
    \A t \in Threads :
       LET f == call[t]
       IN ValidCanDelete(f) =>
             /\ SecondsUntil(FrameOrdinal(f), f.cutoff) = 24 * 60 * 60 =>
                   f.result = Return("True", {})
             /\ f.cutoff = Cutoff0310 =>
                   /\ FrameOrdinal(f) \in {Ordinal(2024, 3, 8), Ordinal(2024, 3, 9)} =>
                         f.result = Return("True", {})
                   /\ FrameOrdinal(f) = Ordinal(2024, 3, 10) =>
                         f.result = Return("False", {})

\* can_delete_index answered True for 2024-03-09 under the cutoff 2024-03-10.
C11_Witness ==
    \E t \in Threads :
       /\ ValidCanDelete(call[t])
       /\ call[t].cutoff = Cutoff0310
       /\ call[t].name = PrefixA \o Day0309
       /\ call[t].result = Return("True", {})

\* C12: list_indices on a ready manager does not raise when the backend
\* answers NotFoundError or AuthorizationException: it returns the names of
\* the indices matching prefix*, the empty list on NotFoundError and None on
\* AuthorizationException, and None is not the empty list.
C12_ListIndicesResults ==
    \A t \in Threads :
       LET f == call[t]
       IN (f.op = "list_indices" /\ f.answer # "") =>
             /\ initialized[f.mgr]
             /\ f.pc = "done"
             /\ f.answer \in {"NotFoundError", "AuthorizationException"} =>
                   f.result.kind = "return"
             /\ f.answer = "ok" =>
                   f.result = Return("list", {n \in indices :
                                                StartsWith(n, PrefixOf(f.mgr))})
             /\ f.answer = "NotFoundError" => f.result = Return("list", {})
             /\ f.answer = "AuthorizationException" =>
                   (f.result = Return("None", {}) /\ f.result # Return("list", {}))

\* list_indices returned None on an unauthorized answer while the backend
\* holds indices of the prefix.
C12_Witness ==
    \E t \in Threads :
       /\ call[t].op = "list_indices"
       /\ call[t].answer = "AuthorizationException"
       /\ call[t].result = Return("None", {})
       /\ \E n \in indices : StartsWith(n, PrefixOf(call[t].mgr))

\* C13: on a ready manager, what delete_index with a valid name gives its
\* caller when the backend answers AuthorizationException differs from what it
\* gives when the backend answers NotFoundError, and index_exists never
\* returns False on AuthorizationException.
C13_UnauthorizedDistinctFromNotFound ==
    \A t, u \in Threads :
       /\ ( /\ call[t].op = "delete_index"
            /\ call[u].op = "delete_index"
            /\ call[t].answer = "AuthorizationException"
            /\ call[u].answer = "NotFoundError" ) =>
               call[t].result # call[u].result
       /\ (call[t].op = "index_exists" /\ call[t].answer = "AuthorizationException") =>
               call[t].result # Return("False", {})

\* C14: a retention sweep over deletable names of which the backend refuses
\* one as unauthorized does not abort: delete_index of the refused name
\* returns None without raising and leaves the manager ready; at the end of
\* the sweep the other names were returned as deleted and are gone from the
\* backend, and the refused name is still there and noted as a failure.
C14_SweepToleratesUnauthorized ==
    \A t \in Threads :
       LET f == call[t]
           sw == f.sweep
       IN /\ sw.phase # "aborted"
          /\ f.result.kind # "raise"
          /\ (f.op = "delete_index" /\ f.pc = "done" /\ f.name \in cfg.denied) =>
                /\ f.result = Return("None", {})
                /\ initialized[f.mgr]
                /\ f.name \in indices
          /\ sw.phase = "done" =>
                /\ sw.deleted = sw.plan \ cfg.denied
                /\ sw.failed = sw.plan \cap cfg.denied
                /\ sw.deleted \cap indices = {}
                /\ sw.failed \subseteq indices
                /\ initialized[f.mgr]

\* A sweep over the three stored names ended: those of 2024-03-08 and
\* 2024-03-10 deleted, that of 2024-03-09 refused and still in the backend.
C14_Witness ==
    \E t \in Threads :
       /\ call[t].sweep.phase = "done"
       /\ call[t].sweep.plan = StoredNames
       /\ call[t].sweep.deleted = {PrefixA \o Day0308, PrefixA \o Day0310}
       /\ call[t].sweep.failed = {PrefixA \o Day0309}
       /\ indices = {PrefixA \o Day0309}

\* C15: for every prefix _valid_index_prefix accepts and every day d, the
\* name index_name(d) = prefix + YYYY-MM-DD passes _valid_index_name of the
\* manager, and the date parsed from what follows the prefix is d.
C15_NameRoundTrip ==
    \A t \in Threads :
       LET f == call[t]
           prefix == PrefixOf(f.mgr)
           dt == IndexDate(prefix, f.name)
       IN (f.op = "_valid_index_name" /\ ValidIndexPrefix(prefix)) =>
             /\ f.result = Return("True", {})
             /\ dt.ok
             /\ [y |-> dt.y, m |-> dt.m, d |-> dt.d] = f.day

\* The part of C15 that holds of the code: the round trip for prefixes that
\* leave room for the date and days from year 1000 on.
NameRoundTripWithRoom ==
    \A t \in Threads :
       LET f == call[t]
           prefix == PrefixOf(f.mgr)
           dt == IndexDate(prefix, f.name)
       IN ( /\ f.op = "_valid_index_name"
            /\ ValidIndexPrefix(prefix)
            /\ Len(prefix) <= PatternMaxLen - DateLen
            /\ f.day.y >= 1000 ) =>
             /\ f.result = Return("True", {})
             /\ dt.ok
             /\ [y |-> dt.y, m |-> dt.m, d |-> dt.d] = f.day

\* C16: on a ready manager, index_exists for a name the backend does not hold
\* returns False without raising; delete_index for a valid name the backend
\* does not hold returns None without raising and leaves the backend's
\* indices as they are; and delete_index returns the name itself exactly when
\* the backend deleted the index.
C16_NotFoundTransparency ==
    /\ [](\A t \in Threads :
            LET f == call[t]
            IN /\ ( /\ f.op = "index_exists"
                    /\ initialized[f.mgr]
                    /\ f.answer = "NotFoundError" ) =>
                       f.result = Return("False", {})
               /\ (f.op = "delete_index" /\ f.answer # "") =>
                     /\ initialized[f.mgr]
                     /\ ValidIndexName(PrefixOf(f.mgr), f.name)
                     /\ f.answer = "NotFoundError" => f.result = Return("None", {})
                     /\ f.result = Return("index", {f.name}) <=> f.answer = "ok")
    /\ [][\A t \in Threads :
            (call[t].pc = "delete" /\ call'[t].pc = "done") =>
               /\ call'[t].answer = "NotFoundError" =>
                     (call[t].name \notin indices /\ indices' = indices)
               /\ call'[t].answer = "ok" =>
                     (call[t].name \in indices /\ indices' = indices \ {call[t].name})]_vars

\* delete_index returned None for a valid name the backend no longer holds.
C16_Witness ==
    \E t \in Threads :
       /\ call[t].op = "delete_index"
       /\ call[t].answer = "NotFoundError"
       /\ call[t].name \in StoredNames
       /\ call[t].result = Return("None", {})
       /\ initialized[call[t].mgr]

\* C17: index_exists sends its get-index request only when the manager is
\* ready, also on a freshly constructed manager and after a provisioning
\* attempt that failed, and it answers True or False only in that state.
C17_IndexExistsRequiresReady ==
    \A t \in Threads :
       LET f == call[t]
       IN f.op = "index_exists" =>
             /\ (f.pc = "exists" \/ Sends(f, "get")) => initialized[f.mgr]
             /\ f.result \in {Return("True", {}), Return("False", {})} =>
                   initialized[f.mgr]

\* Every caller of the deployment has run provisioning and is back.
AllFinished == \A t \in cfg.threads : call[t].pc = "done"

\* The call of frame f came back without an error.
MetNoError(f) == f.pc = "done" /\ f.result.kind = "return"

\* C18: when separate processes each provision the same prefix with the same
\* template definition against one backend, then in every interleaving, once
\* all of them have finished, the backend holds one template under the
\* prefix, equal to the shared definition, and every process that met no
\* backend error is ready.
C18_OneSharedTemplate ==
    AllFinished =>
       /\ templates[PrefixA] = TemplateDefinition(PrefixA)
       /\ \A t \in cfg.threads : MetNoError(call[t]) => initialized[call[t].mgr]

\* C18 as the code has it: the backend never holds anything under the prefix
\* but the template it held before or the shared definition, a template
\* changes only into the shared definition, and it is the shared definition
\* once a registration was accepted; once all processes have finished, the
\* backend holds a template if some process met no backend error, and every
\* process that met no backend error is ready.
C18_ProvisioningConverges ==
    /\ [](/\ templates[PrefixA] \in {NoTemplate, StaleTemplate(PrefixA),
                                    TemplateDefinition(PrefixA)}
          /\ (\E m \in Managers : regs[m] > 0) =>
                templates[PrefixA] = TemplateDefinition(PrefixA)
          /\ AllFinished =>
                /\ (\E t \in cfg.threads : MetNoError(call[t])) =>
                      templates[PrefixA] # NoTemplate
                /\ \A t \in cfg.threads :
                      MetNoError(call[t]) => initialized[call[t].mgr])
    /\ [][templates' # templates =>
             templates' = [templates EXCEPT ![PrefixA] = TemplateDefinition(PrefixA)]]_vars

\* Both processes looked the template up before either registered it, both
\* registered it, and both are ready.
C18_Witness ==
    /\ AllFinished
    /\ \A t \in cfg.threads : /\ call[t].lookup = "NotFoundError"
                              /\ MetNoError(call[t])
    /\ regs["m1"] = 1
    /\ regs["m2"] = 1
    /\ initialized["m1"]
    /\ initialized["m2"]
    /\ templates[PrefixA] = TemplateDefinition(PrefixA)

\* C19: the flag _initialized changes only from unset to set, only as a
\* provisioning attempt of _initialize ends with nothing raised to the caller;
\* no outcome of the list, delete or exists request changes it; a ready
\* manager stays ready; and on a manager that is not ready the next
\* _initialize, list_indices or delete_index call runs the sequence again
\* from the creation of the connections and the lookup.
C19_ReadyFlagFrame ==
    [][/\ \A m \in Managers :
            /\ initialized[m] => initialized'[m]
            /\ initialized'[m] # initialized[m] =>
                  \E t \in Threads :
                     /\ call[t].mgr = m
                     /\ call[t].pc \in InitializePcs
                     /\ call'[t].pc \notin InitializePcs
                     /\ call'[t].pending = "none"
       /\ \A t \in Threads :
            /\ (call[t].pc \in {"list", "delete", "exists"} /\ call'[t] # call[t]) =>
                  initialized' = initialized
            /\ ( /\ call[t].pc \in {"idle", "done"}
                 /\ call'[t] # call[t]
                 /\ call'[t].op \in {"initialize", "list_indices", "delete_index"}
                 /\ ~initialized[call'[t].mgr] ) =>
                  /\ call'[t].pc = "get_template"
                  /\ call'[t].opened
                  /\ call'[t].reqs = <<>>
                  /\ initialized' = initialized]_vars

\* delete_index on a manager whose earlier attempt found the template and
\* then failed: the call stands before the lookup again.
C19_Witness ==
    \E t \in Threads :
       /\ call[t].op = "delete_index"
       /\ call[t].pc = "get_template"
       /\ provisioned[call[t].mgr]
       /\ ~initialized[call[t].mgr]

\* The name prefix + YYYY-MM-DD of the index of a day.
DayIndex(prefix, day) ==
    prefix \o Decimal(day.y, 4) \o <<"-">> \o Decimal(day.m, 2)
           \o <<"-">> \o Decimal(day.d, 2)

\* C20: the binding LogEntry.save writes through is that of the process:
\* save sends its request only after a LogEntry.init has completed, and the
\* index it writes to is the prefix passed to the most recent LogEntry.init
\* followed by the record's day; so with a manager ready that was the last to
\* call LogEntry.init, and with both managers initialized, the record goes to
\* the prefix of the manager that called LogEntry.init last.
C20_ProcessWideBinding ==
    \A t \in Threads :
       LET f == call[t]
           p == ProcOf(f.mgr)
       IN (f.op = "save" /\ (f.pc = "save" \/ Sends(f, "index"))) =>
             /\ leInit[p]
             /\ lastInit[p] # "none"
             /\ f.name = DayIndex(PrefixOf(lastInit[p]), f.day)
             /\ \A m \in cfg.mgrs :
                   (initialized[m] /\ PrefixOf(lastInit[p]) = PrefixOf(m)) =>
                       f.name = DayIndex(PrefixOf(m), f.day)
             /\ f.result.kind = "return" => f.name \in indices

\* What holds of the code: the index save writes to is the record's day
\* formatted with the pattern <prefix of the most recent LogEntry.init> +
\* INDEX_DATE_FORMAT, which is prefix + YYYY-MM-DD when the prefix holds no
\* percent sign.
SaveFormatsBoundPrefix ==
    \A t \in Threads :
       LET f == call[t]
           p == ProcOf(f.mgr)
           bound == PrefixOf(lastInit[p])
       IN (f.op = "save" /\ (f.pc = "save" \/ Sends(f, "index"))) =>
             /\ leInit[p]
             /\ lastInit[p] # "none"
             /\ f.name = SaveIndexValue(bound, f.day, cfg.padYear)
             /\ (\A i \in 1..Len(bound) : bound[i] # "%") =>
                   f.name = DayIndex(bound, f.day)
             /\ f.result.kind = "return" => f.name \in indices

====
